---- MODULE Spec2Model ----
(***************************************************************************)
(* Gmail MCP server: the credential life cycle and the tool layer.         *)
(*                                                                         *)
(* Two server programs share the design and are modelled side by side:     *)
(*   "primary"    gmail_mcp_server.py            (class GmailService)      *)
(*   "secondary"  gmail_mcp_server_secondary.py  (class GmailMCPServer)    *)
(* The variable `server` says which program a behaviour is a run of.       *)
(*                                                                         *)
(* An authentication call is a sequence of steps of one caller: load the   *)
(* token file, refresh, interactive grant, save, build.  The refresh and   *)
(* the grant are blocking calls to the provider (or the user) and are      *)
(* modelled as a start step and a return step, so that two callers can be  *)
(* inside them at once.                                                    *)
(***************************************************************************)
EXTENDS Integers, FiniteSets, Sequences, TLC

\* ---------------------------------------------------------------- bounds
MaxCalls == 2
MaxNow == 1
MaxEnvChanges == 1
MaxToolCalls == 1
MaxInvocations == 3

\* two threads of control that may run the authentication routine
Callers == {"t1", "t2"}
Servers == {"primary", "secondary"}

\* ----------------------------------------------------------- credentials
\* A credential as google.oauth2.credentials.Credentials exposes it to the
\* code: an expiry, whether a refresh token is present, and where the value
\* came from.  NoCred is Python's None.
NoCred == [exp |-> 0, refresh |-> FALSE, origin |-> "none"]

\* creds.valid: an access token that has not expired
Valid(cr, t) == cr.origin # "none" /\ t < cr.exp

\* creds.expired
Expired(cr, t) == cr.origin # "none" /\ t >= cr.exp

\* "not creds or not creds.valid"
NeedsAuthNoValidityCheck(cr, t) == cr.origin = "none"

NeedsAuth(cr, t) == cr.origin = "none" \/ ~Valid(cr, t)

\* "creds and creds.expired and creds.refresh_token"
RefreshableWithoutToken(cr, t) == cr.origin # "none" /\ Expired(cr, t)

Refreshable(cr, t) == cr.origin # "none" /\ Expired(cr, t) /\ cr.refresh

\* creds.refresh(Request()) on success: a new access token, one period long
Refreshed(cr, t) == [exp |-> t + 1, refresh |-> cr.refresh, origin |-> "refreshed"]

\* flow.run_local_server() / flow.fetch_token(code): a fresh credential
\* (access_type offline: it carries a refresh token)
Granted(t) == [exp |-> t + 1, refresh |-> TRUE, origin |-> "granted"]

\* ------------------------------------------------------------ token file
Absent == [kind |-> "absent", cred |-> NoCred]
Corrupt == [kind |-> "corrupt", cred |-> NoCred]

\* token.write(creds.to_json())
FileOfUnparseable(cr) == Corrupt

FileOf(cr) == [kind |-> "cred", cred |-> cr]

StoredCreds == {[exp |-> e, refresh |-> r, origin |-> "stored"] : e \in 0..1, r \in BOOLEAN}

InitFiles == {Absent, Corrupt} \cup {FileOf(cr) : cr \in StoredCreds}

\* Credentials.from_authorized_user_file / from_authorized_user_info
LoadedCred(file) == IF file.kind = "cred" THEN file.cred ELSE NoCred

\* how a loaded token file classifies at time t
Classify(file, t) ==
    CASE file.kind = "absent" -> "absent"
      [] file.kind = "corrupt" -> "corrupt"
      [] Valid(file.cred, t) -> "valid"
      [] file.cred.refresh -> "expRefreshable"
      [] OTHER -> "expTerminal"

\* ---------------------------------------------------------------- service
NoService == [installed |-> FALSE, cred |-> NoCred]
ServiceOf(cr) == [installed |-> TRUE, cred |-> cr]

\* ------------------------------------------------------------ environment
EnvFields == {"secret", "refreshOk", "autoOk", "manualOk", "writeOk"}
Envs == [EnvFields -> BOOLEAN]

\* --------------------------------------------------------- per-call record
Log0 == [arg |-> FALSE, loaded |-> "none", refresh |-> "none", grant |-> "none",
         autoTried |-> 0, manualTried |-> 0, secretMissing |-> FALSE,
         wrote |-> "none", result |-> "running", installed |-> FALSE,
         usable |-> FALSE]

\* no gateway operation has run yet
Gw0 == [op |-> "none"]

Tool0 == [op |-> "none", fault |-> "none", hadService |-> FALSE,
          credValid |-> FALSE, outcome |-> "none", issued |-> 0]

\* tool invocations the dispatcher is handed
Invocations == 1..MaxInvocations

\* the dispatcher at rest: the event-loop thread is free (loop = 0) and no
\* invocation has arrived
Disp0 == [loop |-> 0, inv |-> [i \in Invocations |-> [tool |-> "none", st |-> "none"]]]

VARIABLES
    server,      \* which program this is a run of
    now,         \* the clock, in token lifetimes
    tokenFile,   \* TOKEN_PATH / self.token_path
    env,         \* client-secret file, provider, user and file-system behaviour
    envChanges,  \* number of changes to env so far
    service,     \* self.service
    pc,          \* where each caller is in the authentication routine
    creds,       \* local variable creds of each caller
    manual,      \* parameter manual_auth of each caller
    log,         \* what the current (or last) call of each caller did
    prev,        \* result of the call before it
    calls,       \* number of authentication calls started so far
    dirtyPrev,   \* the world changed during or after the previous call
    dirtyCur,    \* the world changed during or after the current call
    tool,        \* the last tool invocation
    toolCalls,   \* number of tool invocations so far
    gw,          \* the last gateway operation: its input and what it produced
    disp         \* the dispatcher: its event-loop thread and the invocations

vars == <<server, now, tokenFile, env, envChanges, service, pc, creds, manual,
          log, prev, calls, dirtyPrev, dirtyCur, tool, toolCalls, gw, disp>>

authVars == <<pc, creds, manual, log, prev, calls>>
worldVars == <<server, now, env, envChanges>>
toolVars == <<tool, toolCalls, gw, disp>>

Init ==
    /\ server \in Servers
    /\ now = 0
    /\ tokenFile \in InitFiles
    /\ env \in Envs
    /\ envChanges = 0
    /\ service = NoService
    /\ pc = [c \in Callers |-> "idle"]
    /\ creds = [c \in Callers |-> NoCred]
    /\ manual = [c \in Callers |-> FALSE]
    /\ log = [c \in Callers |-> [Log0 EXCEPT !.result = "none"]]
    /\ prev = [c \in Callers |-> "none"]
    /\ calls = 0
    /\ dirtyPrev = [c \in Callers |-> FALSE]
    /\ dirtyCur = [c \in Callers |-> FALSE]
    /\ tool = Tool0
    /\ toolCalls = 0
    /\ gw = Gw0
    /\ disp = Disp0

\* the world changed under every caller
DirtyAll == dirtyCur' = [c \in Callers |-> TRUE] /\ UNCHANGED dirtyPrev

\* caller c changed the token file under the other callers
DirtyOthers(c) ==
    /\ dirtyCur' = [d \in Callers |-> IF d = c THEN dirtyCur[d] ELSE TRUE]
    /\ UNCHANGED dirtyPrev

\* the routine raises: nothing is installed, the caller gets the exception
Raise(c, lg) ==
    /\ pc' = [pc EXCEPT ![c] = "idle"]
    /\ log' = [log EXCEPT ![c] = [lg EXCEPT !.result = "error"]]

\* GmailService() / server.authenticate(manual_auth)
Call(c) ==
    /\ pc[c] = "idle"
    /\ calls < MaxCalls
    /\ \E m \in BOOLEAN :
        /\ (server = "primary") => (m = FALSE)
        /\ manual' = [manual EXCEPT ![c] = m]
        /\ log' = [log EXCEPT ![c] = [Log0 EXCEPT !.arg = m]]
        \* a call with another argument is not a repetition of the last one
        /\ dirtyPrev' = [dirtyPrev EXCEPT ![c] = dirtyCur[c] \/ log[c].arg # m]
    /\ pc' = [pc EXCEPT ![c] = "load"]
    /\ creds' = [creds EXCEPT ![c] = NoCred]
    /\ prev' = [prev EXCEPT ![c] = log[c].result]
    /\ calls' = calls + 1
    /\ dirtyCur' = [dirtyCur EXCEPT ![c] = FALSE]
    /\ UNCHANGED <<worldVars, tokenFile, service, toolVars>>

\* after the load: which branch of "if not creds or not creds.valid" is taken
AfterLoadAlwaysRefresh(cr, t) == IF ~NeedsAuth(cr, t) THEN "build" ELSE "refresh"

AfterLoadSavesValid(cr, t) ==
    IF ~NeedsAuth(cr, t) THEN "save"
    ELSE IF Refreshable(cr, t) THEN "refresh"
    ELSE "flow"

AfterLoad(cr, t) ==
    IF ~NeedsAuth(cr, t) THEN "build"
    ELSE IF Refreshable(cr, t) THEN "refresh"
    ELSE "flow"

\* the token file is read and the branch chosen
Load(c) ==
    /\ pc[c] = "load"
    /\ LET lg == [log[c] EXCEPT !.loaded = Classify(tokenFile, now)]
           cr == LoadedCred(tokenFile)
       IN  IF server = "secondary" /\ tokenFile.kind = "corrupt"
           THEN \* json.load / from_authorized_user_info raises, uncaught
                Raise(c, lg) /\ UNCHANGED creds
           ELSE /\ creds' = [creds EXCEPT ![c] = cr]
                /\ pc' = [pc EXCEPT ![c] = AfterLoad(cr, now)]
                /\ log' = [log EXCEPT ![c] = lg]
    /\ UNCHANGED <<worldVars, tokenFile, service, manual, prev, calls,
                   dirtyPrev, dirtyCur, toolVars>>

\* creds.refresh(Request()) is entered: the request is in flight
RefreshStart(c) ==
    /\ pc[c] = "refresh"
    /\ pc' = [pc EXCEPT ![c] = "refreshing"]
    /\ log' = [log EXCEPT ![c].refresh = "started"]
    /\ UNCHANGED <<worldVars, tokenFile, service, creds, manual, prev, calls,
                   dirtyPrev, dirtyCur, toolVars>>

\* primary, after the refresh block: "if not creds or not creds.valid"
AfterRefreshSkipsSave(cr, t) == IF NeedsAuth(cr, t) THEN "flow" ELSE "build"

AfterRefresh(cr, t) == IF NeedsAuth(cr, t) THEN "flow" ELSE "save"

\* secondary: creds.refresh is not guarded; the exception ends the call
RefreshFailedSecondary(c, lg) == Raise(c, lg) /\ UNCHANGED creds

\* creds.refresh(Request()) returns or raises
RefreshReturn(c) ==
    /\ pc[c] = "refreshing"
    /\ IF env.refreshOk
       THEN LET cr == Refreshed(creds[c], now)
            IN  /\ creds' = [creds EXCEPT ![c] = cr]
                /\ log' = [log EXCEPT ![c].refresh = "ok"]
                /\ pc' = [pc EXCEPT ![c] =
                            IF server = "primary" THEN AfterRefresh(cr, now) ELSE "save"]
       ELSE LET lg == [log[c] EXCEPT !.refresh = "failed"]
            IN  IF server = "primary"
                THEN \* except Exception: warning, creds = None
                     /\ creds' = [creds EXCEPT ![c] = NoCred]
                     /\ log' = [log EXCEPT ![c] = lg]
                     /\ pc' = [pc EXCEPT ![c] = AfterRefresh(NoCred, now)]
                ELSE RefreshFailedSecondary(c, lg)
    /\ UNCHANGED <<worldVars, tokenFile, service, manual, prev, calls,
                   dirtyPrev, dirtyCur, toolVars>>

\* the client-secret file is looked up and the interactive grant begins
FlowStart(c) ==
    /\ pc[c] = "flow"
    /\ IF ~env.secret
       THEN \* FileNotFoundError (raised by the code or by from_client_secrets_file)
            Raise(c, [log[c] EXCEPT !.secretMissing = TRUE])
       ELSE /\ pc' = [pc EXCEPT ![c] = IF manual[c] THEN "manual" ELSE "auto"]
            /\ log' = [log EXCEPT ![c] =
                         [@ EXCEPT !.grant = "entered",
                                   !.autoTried = IF manual[c] THEN @ ELSE @ + 1,
                                   !.manualTried = IF manual[c] THEN @ + 1 ELSE @]]
    /\ UNCHANGED <<worldVars, tokenFile, service, creds, manual, prev, calls,
                   dirtyPrev, dirtyCur, toolVars>>

\* the argument of the call the automatic flow falls back to:
\* "return self.authenticate(manual_auth=True)"
FallbackArgAutomatic == FALSE

FallbackArg == TRUE

\* flow.run_local_server(port=0) returns a credential or raises
AutoReturn(c) ==
    /\ pc[c] = "auto"
    /\ IF env.autoOk
       THEN /\ creds' = [creds EXCEPT ![c] = Granted(now)]
            /\ log' = [log EXCEPT ![c].grant = "ok"]
            /\ pc' = [pc EXCEPT ![c] = "save"]
            /\ UNCHANGED manual
       ELSE IF server = "primary"
            THEN Raise(c, [log[c] EXCEPT !.grant = "failed"]) /\ UNCHANGED <<creds, manual>>
            ELSE \* return self.authenticate(manual_auth=True)
                 /\ manual' = [manual EXCEPT ![c] = FallbackArg]
                 /\ creds' = [creds EXCEPT ![c] = NoCred]
                 /\ pc' = [pc EXCEPT ![c] = "load"]
                 /\ log' = [log EXCEPT ![c].grant = "fallback"]
    /\ UNCHANGED <<worldVars, tokenFile, service, prev, calls,
                   dirtyPrev, dirtyCur, toolVars>>

\* input() and flow.fetch_token(code=auth_code)
ManualReturn(c) ==
    /\ pc[c] = "manual"
    /\ IF env.manualOk
       THEN /\ creds' = [creds EXCEPT ![c] = Granted(now)]
            /\ log' = [log EXCEPT ![c].grant = "ok"]
            /\ pc' = [pc EXCEPT ![c] = "save"]
       ELSE Raise(c, [log[c] EXCEPT !.grant = "failed"]) /\ UNCHANGED creds
    /\ UNCHANGED <<worldVars, tokenFile, service, manual, prev, calls,
                   dirtyPrev, dirtyCur, toolVars>>

\* secondary: open(TOKEN_PATH, 'w') is not guarded; the OSError ends the call
SaveFailedSecondary(c, lg) == Raise(c, lg)

\* the credential is written to the token file
Save(c) ==
    /\ pc[c] = "save"
    /\ IF env.writeOk
       THEN /\ tokenFile' = FileOf(creds[c])
            /\ log' = [log EXCEPT ![c].wrote = "ok"]
            /\ pc' = [pc EXCEPT ![c] = "build"]
            /\ DirtyOthers(c)
       ELSE /\ UNCHANGED <<tokenFile, dirtyPrev, dirtyCur>>
            /\ LET lg == [log[c] EXCEPT !.wrote = "failed"]
               IN  IF server = "primary"
                   THEN \* except OSError: warning
                        /\ pc' = [pc EXCEPT ![c] = "build"]
                        /\ log' = [log EXCEPT ![c] = lg]
                   ELSE SaveFailedSecondary(c, lg)
    /\ UNCHANGED <<worldVars, service, creds, manual, prev, calls, toolVars>>

\* self.service = build('gmail', 'v1', credentials=creds); return
Build(c) ==
    /\ pc[c] = "build"
    /\ service' = ServiceOf(creds[c])
    /\ pc' = [pc EXCEPT ![c] = "idle"]
    /\ log' = [log EXCEPT ![c] =
                 [@ EXCEPT !.result = "ok", !.installed = TRUE,
                           !.usable = Valid(creds[c], now)]]
    /\ UNCHANGED <<worldVars, tokenFile, creds, manual, prev, calls,
                   dirtyPrev, dirtyCur, toolVars>>

\* a caller is blocked on the provider or the user, or is between calls
Waiting(c) == pc[c] \in {"idle", "refreshing", "auto", "manual"}

\* Time passes while callers wait; local computation takes no time (the
\* library reports a token as expired some minutes before the provider
\* stops accepting it, far longer than the local steps of a call).
Tick ==
    /\ now < MaxNow
    /\ \A c \in Callers : Waiting(c)
    /\ now' = now + 1
    /\ DirtyAll
    /\ UNCHANGED <<server, env, envChanges, tokenFile, service, authVars, toolVars>>

\* the client-secret file, the provider, the user or the file system changes
EnvChange(f) ==
    /\ envChanges < MaxEnvChanges
    /\ env' = [env EXCEPT ![f] = ~@]
    /\ envChanges' = envChanges + 1
    /\ DirtyAll
    /\ UNCHANGED <<server, now, tokenFile, service, authVars, toolVars>>

\* ------------------------------------------------------------------ tools
\* What can go wrong in one invocation:
\*   "provider"   the provider answers the request with an error (HttpError)
\*   "transport"  the request cannot be sent (no connection, no usable token)
\*   "io"         a local file cannot be read or written
\*   "webhook"    the n8n webhook answers with an error status
\*   "config"     N8N_WEBHOOK_BASE_URL is not set
ToolOps(srv) ==
    IF srv = "primary" THEN {"send_email", "trigger_n8n_workflow"}
    ELSE {"send_email", "get_profile", "download_attachment"}

Faults(srv, op) ==
    CASE srv = "primary" /\ op = "send_email" -> {"none", "provider", "transport"}
      [] srv = "primary" /\ op = "trigger_n8n_workflow" -> {"none", "webhook", "config"}
      [] srv = "secondary" /\ op = "send_email" -> {"none", "provider", "transport", "io"}
      [] srv = "secondary" /\ op = "get_profile" -> {"none", "provider", "transport"}
      [] OTHER -> {"none", "provider", "io"}

Res(o, n) == [outcome |-> o, issued |-> n]

\* secondary: the body of every tool is "try: ... except Exception as e:
\* return {'success': False, 'error': str(e)}"
ToolSecondaryUnguarded(svc, op, fault) ==
    IF op = "send_email" /\ fault = "io" THEN Res("raised", 0)
    ELSE IF ~svc.installed THEN Res("raised", 0)
    ELSE CASE fault = "none" -> Res("success", 1)
           [] fault = "provider" -> Res("raised", 1)
           [] fault = "transport" -> Res("raised", 0)
           [] OTHER -> Res("raised", 1)

ToolSecondary(svc, op, fault) ==
    IF op = "send_email" /\ fault = "io"
    THEN \* an attachment cannot be opened, before the request is built
         Res("failure", 0)
    ELSE IF ~svc.installed
    THEN \* self.service is None: self.service.users() raises AttributeError
         Res("failure", 0)
    ELSE CASE fault = "none" -> Res("success", 1)
           [] fault = "provider" -> Res("failure", 1)
           [] fault = "transport" -> Res("failure", 0)
           \* download_attachment: fetched, then open(save_path, 'wb') fails
           [] OTHER -> Res("failure", 1)

\* primary: "except HttpError as e: logger.error(...); raise"; any other
\* exception is not caught at all
ToolPrimary(svc, op, fault) ==
    IF op = "send_email"
    THEN CASE fault = "none" -> Res("success", 2)   \* getProfile, then send
           [] fault = "provider" -> Res("raised", 1)
           [] OTHER -> Res("raised", 0)
    ELSE CASE fault = "none" -> Res("success", 0)
           [] OTHER -> Res("raised", 0)

ToolResult(srv, svc, op, fault) ==
    IF srv = "primary" THEN ToolPrimary(svc, op, fault)
    ELSE ToolSecondary(svc, op, fault)

\* The service object sends nothing with an expired credential: the client
\* library behind .execute() first refreshes it in place, and raises when it
\* has no refresh token or the refresh fails.
CanSend(svc, t, e) == Valid(svc.cred, t) \/ (svc.cred.refresh /\ e.refreshOk)

UsesMail(op) == op # "trigger_n8n_workflow"

\* one tool is invoked and runs to its end
ToolInvoke(op, fault) ==
    /\ toolCalls < MaxToolCalls
    /\ op \in ToolOps(server)
    /\ fault \in Faults(server, op)
    \* primary: the tools exist only once "_gmail_service = GmailService()"
    \* has returned
    /\ (server = "primary") => service.installed
    /\ (service.installed /\ UsesMail(op) /\ ~CanSend(service, now, env))
          => fault \in {"transport", "io"} /\ (fault = "io" => op = "send_email")
    /\ service' = IF service.installed /\ UsesMail(op) /\ fault \in {"none", "provider"}
                     /\ ~Valid(service.cred, now)
                  THEN ServiceOf(Refreshed(service.cred, now))
                  ELSE service
    /\ LET r == ToolResult(server, service, op, fault)
       IN  tool' = [op |-> op, fault |-> fault,
                    hadService |-> service.installed,
                    credValid |-> Valid(service.cred, now),
                    outcome |-> r.outcome, issued |-> r.issued]
    /\ toolCalls' = toolCalls + 1
    /\ UNCHANGED <<worldVars, tokenFile, authVars, dirtyPrev, dirtyCur, gw, disp>>

AllFaults == {"none", "provider", "transport", "io", "webhook", "config"}
AllOps == ToolOps("primary") \cup ToolOps("secondary")

Next ==
    \/ \E c \in Callers : Call(c)
    \/ \E c \in Callers : Load(c)
    \/ \E c \in Callers : RefreshStart(c)
    \/ \E c \in Callers : RefreshReturn(c)
    \/ \E c \in Callers : FlowStart(c)
    \/ \E c \in Callers : AutoReturn(c)
    \/ \E c \in Callers : ManualReturn(c)
    \/ \E c \in Callers : Save(c)
    \/ \E c \in Callers : Build(c)
    \/ Tick
    \/ \E f \in EnvFields : EnvChange(f)

Spec == Init /\ [][Next]_vars

\* The server as it runs: one thread authenticates, then tools are invoked.
ToolNext ==
    \/ Call("t1")
    \/ Load("t1")
    \/ RefreshStart("t1")
    \/ RefreshReturn("t1")
    \/ FlowStart("t1")
    \/ AutoReturn("t1")
    \/ ManualReturn("t1")
    \/ Save("t1")
    \/ Build("t1")
    \/ Tick
    \/ \E op \in AllOps, fault \in AllFaults : ToolInvoke(op, fault)

ToolSpec == Init /\ [][ToolNext]_vars

\* ================================================================ gateway
\* The tool procedures as functions of their arguments and of what the
\* provider and the local file system answer.  One operation is applied per
\* behaviour; gw records the arguments and the result.

MaxAttachments == 2

\* every variable but gw
nonGwVars == <<server, now, tokenFile, env, envChanges, service, pc, creds,
               manual, log, prev, calls, dirtyPrev, dirtyCur, tool, toolCalls, disp>>

\* ---------------------------------------------------------------- compose
\* A MIME part.  parts is empty for a leaf; filename is a path (a sequence of
\* components) and disp the Content-Disposition type.
Leaf(ctype, text) ==
    [ctype |-> ctype, text |-> text, disp |-> "", filename |-> <<>>, parts |-> <<>>]

Container(ctype, parts) ==
    [ctype |-> ctype, text |-> "", disp |-> "", filename |-> <<>>, parts |-> parts]

\* os.path.basename(file_path): the directory components are stripped
BasenameKeepsDirs(path) == path

Basename(path) == SubSeq(path, Len(path), Len(path))

\* MIMEBase(...); set_payload; encode_base64; add_header('Content-Disposition',
\* 'attachment; filename="<basename>"')
AttachmentPart(path) ==
    [ctype |-> "application/octet-stream", text |-> "", disp |-> "attachment",
     filename |-> Basename(path), parts |-> <<>>]

\* what open(file_path, 'rb') meets
FileStatuses == {"ok", "missing", "dir", "denied"}
Paths == {<<"f1">>, <<"d", "f2">>}
AttachmentArgs == [path : Paths, status : FileStatuses]

SeqsUpTo(S, n) == UNION {[1..k -> S] : k \in 0..n}

\* the parts of the attachments that could be read, in the order given
AttachmentParts(atts) ==
    LET readable == SelectSeq(atts, LAMBDA a : a.status = "ok")
    IN  [i \in 1..Len(readable) |-> AttachmentPart(readable[i].path)]

\* "subtype = 'html' if mime_type == 'text/html' else 'plain'"
BodySubtype(mime) == IF mime = "text/html" THEN "text/html" ELSE "text/plain"

\* primary: the alternative container of body and html_body
AlternativeHtmlFirst(body, html) ==
    Container("multipart/alternative",
              <<Leaf("text/html", html), Leaf("text/plain", body)>>)

Alternative(body, html) ==
    Container("multipart/alternative",
              <<Leaf("text/plain", body), Leaf("text/html", html)>>)

\* primary: "if mime_type == 'multipart/alternative' and html_body"
BodyPartPrimary(m) ==
    IF m.mime = "multipart/alternative" /\ m.html # ""
    THEN Alternative(m.body, m.html)
    ELSE Leaf(BodySubtype(m.mime), m.body)

\* the value a header is given
HeaderValue(sender, m, h) ==
    CASE h = "From" -> sender
      [] h = "To" -> m.to
      [] h = "Subject" -> m.subject
      [] h = "Cc" -> m.cc
      [] OTHER -> m.bcc

\* primary: the headers dict of _compose, every entry of which is set on
\* the message: From, To and Subject always, Cc and Bcc when not empty
HeadersPrimaryAlwaysCc(sender, m) ==
    [h \in {"From", "To", "Subject", "Cc"}
            \cup (IF m.bcc # <<>> THEN {"Bcc"} ELSE {})
        |-> HeaderValue(sender, m, h)]

HeadersPrimary(sender, m) ==
    [h \in {"From", "To", "Subject"}
            \cup (IF m.cc # <<>> THEN {"Cc"} ELSE {})
            \cup (IF m.bcc # <<>> THEN {"Bcc"} ELSE {})
        |-> HeaderValue(sender, m, h)]

\* secondary: message['to'] = to; message['subject'] = subject;
\* "if cc:" / "if bcc:"; From is never set
HeadersSecondary(m) ==
    [h \in {"To", "Subject"}
            \cup (IF m.cc # <<>> THEN {"Cc"} ELSE {})
            \cup (IF m.bcc # <<>> THEN {"Bcc"} ELSE {})
        |-> HeaderValue("", m, h)]

\* primary, the attachment loop: an OSError is caught and logged per file
WarningsPrimary(atts) == Len(SelectSeq(atts, LAMBDA a : a.status # "ok"))

\* GmailService._compose
ComposePrimary(sender, m) ==
    [raised |-> FALSE,
     warnings |-> WarningsPrimary(m.atts),
     headers |-> HeadersPrimary(sender, m),
     msg |-> IF m.atts # <<>>
             THEN Container("multipart/mixed",
                            <<BodyPartPrimary(m)>> \o AttachmentParts(m.atts))
             ELSE BodyPartPrimary(m)]

\* secondary: os.path.isfile lets a missing path and a directory through
\* silently; a file that cannot be opened raises out of the composition
RaisesSecondary(atts) == \E i \in 1..Len(atts) : atts[i].status = "denied"

\* secondary send_email, up to the encoding of the message
ComposeSecondary(m) ==
    [raised |-> RaisesSecondary(m.atts),
     warnings |-> 0,
     headers |-> HeadersSecondary(m),
     msg |-> IF m.atts # <<>>
             THEN Container("multipart/mixed",
                            <<Leaf(BodySubtype(m.mime), m.body)>>
                                \o AttachmentParts(m.atts))
             ELSE Leaf(BodySubtype(m.mime), m.body)]

Compose(srv, sender, m) ==
    IF srv = "primary" THEN ComposePrimary(sender, m) ELSE ComposeSecondary(m)

\* the arguments of send_email / create_draft
AddressLists == {<<>>, <<"a@example.com">>}
MessageArgs ==
    [to : AddressLists, subject : {"", "Hi"}, body : {"Hello"},
     cc : AddressLists, bcc : AddressLists,
     mime : {"text/plain", "text/html", "multipart/alternative"},
     html : {"", "<p>Hello</p>"},
     atts : SeqsUpTo(AttachmentArgs, MaxAttachments)]

\* the secondary tools take "html: bool" and no html_body; create_draft
\* takes no attachments
ArgsOf(srv, op, m) ==
    \/ srv = "primary"
    \/ /\ srv = "secondary"
       /\ m.mime # "multipart/alternative" /\ m.html = ""
       /\ op = "create_draft" => m.atts = <<>>

\* ------------------------------------------------------- send and draft
\* profile.get("emailAddress", "me")
Sender == "me@example.com"

MainRequest(op) == IF op = "create_draft" THEN "drafts.create" ELSE "messages.send"

\* the send/create request is built and executed once; .execute() is given
\* no retry count and no tool loops around it
SendRequestsRetrying(main, failed) == IF failed THEN <<main, main>> ELSE <<main>>

SendRequests(main, failed) == <<main>>

\* GmailService.send_email / create_draft under the tool wrapper: the
\* sender is fetched (getProfile), the message composed, the request made;
\* an error of either request leaves the tool as an exception
SendPrimary(op, m, failAt) ==
    LET c == ComposePrimary(Sender, m)
    IN  IF failAt = 1
        THEN [composed |-> c, requests |-> <<"getProfile">>, outcome |-> "raised"]
        ELSE [composed |-> c,
              requests |-> <<"getProfile">> \o SendRequests(MainRequest(op), failAt = 2),
              outcome |-> IF failAt = 2 THEN "raised" ELSE "success"]

\* secondary send_email / create_draft: everything is inside one try block
SendSecondary(op, m, failAt) ==
    LET c == ComposeSecondary(m)
    IN  IF c.raised
        THEN [composed |-> c, requests |-> <<>>, outcome |-> "failure"]
        ELSE [composed |-> c,
              requests |-> SendRequests(MainRequest(op), failAt = 1),
              outcome |-> IF failAt = 1 THEN "failure" ELSE "success"]

SendResult(srv, op, m, failAt) ==
    IF srv = "primary" THEN SendPrimary(op, m, failAt) ELSE SendSecondary(op, m, failAt)

\* which request the provider answers with an error (0: none)
FailAts == 0..2

\* send_email(...) / create_draft(...) is invoked once
SendOrDraft(op, m, failAt) ==
    /\ gw = Gw0
    /\ ArgsOf(server, op, m)
    /\ LET r == SendResult(server, op, m, failAt)
       IN  gw' = [op |-> op, m |-> m, failAt |-> failAt, composed |-> r.composed,
                  requests |-> r.requests, outcome |-> r.outcome]
    /\ UNCHANGED nonGwVars

\* ------------------------------------------------------------------ decode
\* parts a payload lists, and parts a nested container lists
MaxParts == 2

MaxNested == 2

\* body.data as the provider sends it: base64url text over bytes.  b64
\* tells whether the text is well-formed base64url, bytes are the bytes it
\* stands for; "?" is a byte that is no valid UTF-8.
Data(b64, bytes) == [b64 |-> b64, bytes |-> bytes]

NoData == Data(TRUE, <<>>)

\* a part without 'parts'.  mime "absent": the part has no 'mimeType' key;
\* body "absent": no 'body' key; body "nodata": a body without 'data' (an
\* attachment carries an attachmentId instead)
LeafPart(mime, body, data) ==
    [mime |-> mime, body |-> body, data |-> data, parts |-> <<>>]

MultiPart(mime, parts) ==
    [mime |-> mime, body |-> "nodata", data |-> NoData, parts |-> parts]

PlainOk == LeafPart("text/plain", "data", Data(TRUE, <<"p">>))

HtmlOk == LeafPart("text/html", "data", Data(TRUE, <<"h">>))

PdfAttachment == LeafPart("application/pdf", "nodata", NoData)

WellFormedLeaves == {PlainOk, HtmlOk, PdfAttachment}

MalformedLeaves ==
    { LeafPart("text/plain", "absent", NoData),
      LeafPart("text/plain", "nodata", NoData),
      LeafPart("text/plain", "data", Data(FALSE, <<"p">>)),
      LeafPart("text/plain", "data", Data(TRUE, <<"p", "?">>)),
      LeafPart("absent", "data", Data(TRUE, <<"p">>)) }

NestedParts ==
    { MultiPart(ct, ps) :
        ct \in {"multipart/alternative"},
        ps \in SeqsUpTo(WellFormedLeaves, MaxNested) \ {<<>>} }

Payloads ==
    WellFormedLeaves \cup MalformedLeaves
    \cup { MultiPart("multipart/mixed", ps) :
             ps \in SeqsUpTo(WellFormedLeaves \cup MalformedLeaves \cup NestedParts,
                             MaxParts) }

Snippet == <<"s">>

RaisedBody == [raised |-> TRUE, body |-> <<>>]

Body(text) == [raised |-> FALSE, body |-> text]

\* base64.urlsafe_b64decode(data).decode('utf-8'): binascii.Error on
\* malformed base64, UnicodeDecodeError on an invalid byte
DecodeStrict(d) ==
    IF ~d.b64 \/ (\E i \in 1..Len(d.bytes) : d.bytes[i] = "?")
    THEN RaisedBody
    ELSE Body(d.bytes)

\* ... .decode("utf-8", errors="ignore"): invalid bytes are dropped
DecodeIgnore(d) ==
    IF ~d.b64
    THEN RaisedBody
    ELSE Body(SelectSeq(d.bytes, LAMBDA b : b # "?"))

RECURSIVE Flatten(_)
Flatten(ss) == IF ss = <<>> THEN <<>> ELSE Head(ss) \o Flatten(Tail(ss))

\* walk(part): the parts without sub-parts, depth first, in order
RECURSIVE Walk(_)
Walk(part) ==
    IF part.parts # <<>>
    THEN Flatten([i \in 1..Len(part.parts) |-> Walk(part.parts[i])])
    ELSE <<part>>

\* "\n".join(body_parts)
RECURSIVE Join(_)
Join(texts) ==
    IF Len(texts) = 0 THEN <<>>
    ELSE IF Len(texts) = 1 THEN texts[1]
    ELSE texts[1] \o <<"\n">> \o Join(Tail(texts))

\* GmailService.read_email: every part without sub-parts that has data is
\* decoded, whatever its type, and the texts are joined; no text: the snippet
BodyPrimary(payload, snippet) ==
    LET withData == SelectSeq(Walk(payload),
                       LAMBDA p : p.body = "data" /\ p.data.bytes # <<>>)
        decoded  == [i \in 1..Len(withData) |-> DecodeIgnore(withData[i].data)]
    IN  IF \E i \in 1..Len(decoded) : decoded[i].raised
        THEN RaisedBody
        ELSE IF decoded = <<>>
             THEN Body(snippet)
             ELSE Body(Join([i \in 1..Len(decoded) |-> decoded[i].body]))

\* part['body']['data'] then decode
PartText(p) ==
    IF p.body # "data" THEN RaisedBody ELSE DecodeStrict(p.data)

\* the loop of _extract_body over payload['parts']: the first text/plain
\* part ends it, a text/html part sets the body and the loop goes on
RECURSIVE ScanParts(_, _)
ScanParts(parts, body) ==
    IF parts = <<>> THEN Body(body)
    ELSE LET p == Head(parts)
         IN  IF p.mime = "absent" THEN RaisedBody
             ELSE IF p.mime = "text/plain" THEN PartText(p)
             ELSE IF p.mime = "text/html"
                  THEN IF PartText(p).raised THEN RaisedBody
                       ELSE ScanParts(Tail(parts), PartText(p).body)
             ELSE ScanParts(Tail(parts), body)

\* 'parts' in payload
HasPartsKey(payload) == payload.mime \in {"multipart/mixed", "multipart/alternative"}

\* GmailMCPServer._extract_body
ExtractBody(payload) ==
    IF HasPartsKey(payload)
    THEN ScanParts(payload.parts, <<>>)
    ELSE IF payload.body = "absent" THEN RaisedBody
    ELSE IF payload.body = "data" /\ payload.data.bytes # <<>>
         THEN DecodeStrict(payload.data)
    ELSE Body(<<>>)

ReadRequest(op) == IF op = "get_thread" THEN "threads.get" ELSE "messages.get"

\* read_email / get_thread (a thread of one message) of either server
ReadResult(srv, op, payload, snippet, failed) ==
    LET b == IF srv = "primary" THEN BodyPrimary(payload, snippet)
                                ELSE ExtractBody(payload)
        bad == IF srv = "primary" THEN "raised" ELSE "failure"
    IN  [requests |-> <<ReadRequest(op)>>,
         outcome  |-> IF failed \/ b.raised THEN bad ELSE "success",
         body     |-> IF failed \/ b.raised THEN <<>> ELSE b.body]

ReadOps(srv) == IF srv = "primary" THEN {"read_email"} ELSE {"read_email", "get_thread"}

Read(op, payload, failed) ==
    /\ op \in ReadOps(server)
    /\ LET r == ReadResult(server, op, payload, Snippet, failed)
       IN  gw' = [op |-> op, payload |-> payload, snippet |-> Snippet,
                  failed |-> failed, requests |-> r.requests,
                  outcome |-> r.outcome, body |-> r.body]
    /\ UNCHANGED nonGwVars

\* ------------------------------------------------------------------ search
\* largest max_results asked for, longest list the provider answers with
MaxN == 2

MaxResp == 3

\* what messages.list answers: an error, or a list of count message ids
ListResponses == [failed : BOOLEAN, count : 0..MaxResp]

\* search_emails(query, max_results=n): one messages.list carrying
\* maxResults=n, then one messages.get per id of the answer; every id of the
\* answer becomes an item of the result
SearchResult(srv, n, resp) ==
    LET bad == IF srv = "primary" THEN "raised" ELSE "failure"
    IN  IF resp.failed
        THEN [requests |-> <<"messages.list">>, asked |-> n,
              outcome |-> bad, items |-> <<>>]
        ELSE [requests |-> <<"messages.list">> \o [i \in 1..resp.count |-> "messages.get"],
              asked |-> n, outcome |-> "success",
              items |-> [i \in 1..resp.count |-> i]]

\* What a tool hands to the dispatcher.  secondary: a dict, {'success':
\* True, 'count': len(list), <list>} or {'success': False, 'error': str(e)};
\* primary: the bare list the service method returned, or the exception
Returned(srv, outcome, items) ==
    IF srv = "secondary"
    THEN [kind |-> "dict", success |-> outcome = "success",
          error |-> outcome # "success",
          hasCount |-> outcome = "success", count |-> Len(items)]
    ELSE [kind |-> IF outcome = "success" THEN "list" ELSE "exception",
          success |-> FALSE, error |-> FALSE, hasCount |-> FALSE, count |-> 0]

Search(n, resp) ==
    /\ LET r == SearchResult(server, n, resp)
       IN  gw' = [op |-> "search_emails", n |-> n, resp |-> resp,
                  requests |-> r.requests, asked |-> r.asked,
                  outcome |-> r.outcome, items |-> r.items,
                  returned |-> Returned(server, r.outcome, r.items)]
    /\ UNCHANGED nonGwVars

\* list_labels: one labels.list; every label of the answer is an item
ListLabelsResult(srv, resp) ==
    LET bad == IF srv = "primary" THEN "raised" ELSE "failure"
    IN  [requests |-> <<"labels.list">>,
         outcome  |-> IF resp.failed THEN bad ELSE "success",
         items    |-> IF resp.failed THEN <<>> ELSE [i \in 1..resp.count |-> i]]

ListLabels(resp) ==
    /\ LET r == ListLabelsResult(server, resp)
       IN  gw' = [op |-> "list_labels", resp |-> resp,
                  requests |-> r.requests, outcome |-> r.outcome, items |-> r.items,
                  returned |-> Returned(server, r.outcome, r.items)]
    /\ UNCHANGED nonGwVars

\* ------------------------------------------------------------------- reply
MaxSubjectLen == 5

Chars == {"R", "e", ":", " ", "x"}

Subjects == SeqsUpTo(Chars, MaxSubjectLen)

RePrefix == <<"R", "e", ":", " ">>

\* s.replace('Re: ', ''): every occurrence, left to right, is removed
RECURSIVE ReplaceRe(_)
ReplaceRe(s) ==
    IF Len(s) < Len(RePrefix) THEN s
    ELSE IF SubSeq(s, 1, Len(RePrefix)) = RePrefix
         THEN ReplaceRe(SubSeq(s, Len(RePrefix) + 1, Len(s)))
         ELSE <<Head(s)>> \o ReplaceRe(Tail(s))

\* f"Re: {headers.get('Subject', '').replace('Re: ', '')}"
ReplySubject(s) == RePrefix \o ReplaceRe(s)

MessageId == "<m1@example.com>"

\* how the original spells the name of its Message-ID header, if it has one
MessageIdNames == {"Message-ID", "Message-Id", "absent"}

ThreadIds == {"T1", "T2"}

Originals == [subject : Subjects, idName : MessageIdNames, threadId : ThreadIds]

\* headers.get('Message-ID', ''): the dict is keyed by the names as received
MessageIdOf(orig) == IF orig.idName = "Message-ID" THEN MessageId ELSE ""

\* the message reply_to_email hands to messages.send
ReplyMessage(orig) ==
    [subject    |-> ReplySubject(orig.subject),
     inReplyTo  |-> MessageIdOf(orig),
     references |-> MessageIdOf(orig),
     threadId   |-> orig.threadId]

NoMessage == [subject |-> <<>>, inReplyTo |-> "", references |-> "", threadId |-> ""]

\* reply_to_email: messages.get of the original, then one messages.send;
\* the provider files the message under the thread the request names
ReplyResult(orig, failAt) ==
    IF failAt = 1
    THEN [requests |-> <<"messages.get">>, outcome |-> "failure",
          send |-> NoMessage, threadId |-> ""]
    ELSE [requests |-> <<"messages.get">> \o SendRequests("messages.send", failAt = 2),
          outcome  |-> IF failAt = 2 THEN "failure" ELSE "success",
          send     |-> ReplyMessage(orig),
          threadId |-> IF failAt = 2 THEN "" ELSE ReplyMessage(orig).threadId]

Reply(orig, failAt) ==
    /\ server = "secondary"
    /\ LET r == ReplyResult(orig, failAt)
       IN  gw' = [op |-> "reply_to_email", orig |-> orig, failAt |-> failAt,
                  requests |-> r.requests, outcome |-> r.outcome,
                  send |-> r.send, threadId |-> r.threadId]
    /\ UNCHANGED nonGwVars


\* ---------------------------------------------------------------- download
\* the file at save_path: "absent", "old" (a file that was there before),
\* "partial" (created or truncated, not all bytes written), "complete"
DestStates == {"absent", "old"}

\* where download_attachment fails: the attachments.get request, the base64
\* decoding of attachment['data'], open(save_path, 'wb'), f.write(file_data)
DownloadFaults == {"none", "fetch", "decode", "open", "write"}

\* a download that opens the destination before it fetches
DestAfterOpenFirst(before, fault) ==
    CASE fault = "open" -> before
      [] fault = "none" -> "complete"
      [] OTHER -> "partial"

\* the destination after the call: the file is opened (created or
\* truncated) only after the fetch and the decoding, and nothing removes it
\* when the write fails
DestAfter(before, fault) ==
    CASE fault \in {"fetch", "decode", "open"} -> before
      [] fault = "write" -> "partial"
      [] OTHER -> "complete"

DownloadResult(before, fault) ==
    [requests |-> <<"attachments.get">>,
     outcome  |-> IF fault = "none" THEN "success" ELSE "failure",
     dest     |-> DestAfter(before, fault)]

Download(before, fault) ==
    /\ server = "secondary"
    /\ LET r == DownloadResult(before, fault)
       IN  gw' = [op |-> "download_attachment", before |-> before, fault |-> fault,
                  requests |-> r.requests, outcome |-> r.outcome, dest |-> r.dest]
    /\ UNCHANGED nonGwVars


\* ------------------------------------------------------------------ labels
\* an optional list of label ids: omitted (None), empty, or one id
LabelArgs == {[given |-> FALSE, ids |-> <<>>],
              [given |-> TRUE,  ids |-> <<>>],
              [given |-> TRUE,  ids |-> <<"Label_1">>]}

ModifyOps(srv) ==
    IF srv = "primary" THEN {"modify_email_labels"}
    ELSE {"modify_message_labels", "batch_modify_messages"}

ModifyRequest(op) ==
    IF op = "batch_modify_messages" THEN "messages.batchModify" ELSE "messages.modify"

\* the label keys of the request body.  primary: both keys, always
\* ("add_label_ids or []"); secondary: a key for each non-empty list
ModifyBody(srv, add, remove) ==
    IF srv = "primary" THEN {"addLabelIds", "removeLabelIds"}
    ELSE (IF add.ids # <<>> THEN {"addLabelIds"} ELSE {})
         \cup (IF remove.ids # <<>> THEN {"removeLabelIds"} ELSE {})

\* the body is built and the request executed; the arguments are not checked
ModifyResult(srv, op, add, remove, failed) ==
    [requests |-> <<ModifyRequest(op)>>,
     body     |-> ModifyBody(srv, add, remove),
     outcome  |-> IF ~failed THEN "success"
                  ELSE IF srv = "primary" THEN "raised" ELSE "failure"]

Modify(op, add, remove, failed) ==
    /\ op \in ModifyOps(server)
    /\ LET r == ModifyResult(server, op, add, remove, failed)
       IN  gw' = [op |-> op, add |-> add, remove |-> remove, failed |-> failed,
                  requests |-> r.requests, body |-> r.body, outcome |-> r.outcome]
    /\ UNCHANGED nonGwVars

\* ----------------------------------------------------------------- filters
\* secondary create_filter: its keyword arguments ("" / "none": not given)
FilterArgs ==
    [from_address : {"", "a@example.com"}, query : {"", "is:unread"},
     has_attachment : {"none", "true", "false"},
     add_labels : LabelArgs, forward_to : {"", "b@example.com"}]

\* criteria = {}; if from_address: ...; if has_attachment is not None: ...
CriteriaOf(a) ==
    (IF a.from_address # "" THEN {"from"} ELSE {})
    \cup (IF a.query # "" THEN {"query"} ELSE {})
    \cup (IF a.has_attachment # "none" THEN {"hasAttachment"} ELSE {})

\* action = {}; if add_labels: ...; if forward_to: ...
ActionOf(a) ==
    (IF a.add_labels.ids # <<>> THEN {"addLabelIds"} ELSE {})
    \cup (IF a.forward_to # "" THEN {"forward"} ELSE {})

\* primary create_filter(criteria, action): the two dicts as the caller
\* gives them, here by their keys
FilterDicts ==
    [criteria : SUBSET {"from", "query"}, action : SUBSET {"addLabelIds", "forward"}]

\* body = {'criteria': criteria, 'action': action}; filters().create(...)
\* is executed whatever the two dicts hold
FilterResult(srv, criteria, action, failed) ==
    [requests |-> <<"filters.create">>,
     criteria |-> criteria,
     action   |-> action,
     outcome  |-> IF ~failed THEN "success"
                  ELSE IF srv = "primary" THEN "raised" ELSE "failure"]

CreateFilter(criteria, action, failed) ==
    /\ LET r == FilterResult(server, criteria, action, failed)
       IN  gw' = [op |-> "create_filter", failed |-> failed,
                  requests |-> r.requests, criteria |-> r.criteria,
                  action |-> r.action, outcome |-> r.outcome]
    /\ UNCHANGED nonGwVars

\* the gateway is looked at on its own: nobody is authenticating
GwInit ==
    /\ Init
    /\ tokenFile = Absent
    /\ env = [f \in EnvFields |-> TRUE]

\* no operation has been applied yet
Fresh == gw = Gw0

SendStep ==
    /\ Fresh
    /\ \E op \in {"send_email", "create_draft"}, m \in MessageArgs, failAt \in FailAts :
          SendOrDraft(op, m, failAt)

ReadStep ==
    /\ Fresh
    /\ \E op \in {"read_email", "get_thread"}, payload \in Payloads, failed \in BOOLEAN :
          Read(op, payload, failed)

SearchStep ==
    /\ Fresh
    /\ \E n \in 0..MaxN, resp \in ListResponses : Search(n, resp)

ReplyStep ==
    /\ Fresh
    /\ \E orig \in Originals, failAt \in FailAts : Reply(orig, failAt)


DownloadStep ==
    /\ Fresh
    /\ \E before \in DestStates, fault \in DownloadFaults : Download(before, fault)


ModifyStep ==
    /\ Fresh
    /\ \E op \in ModifyOps("primary") \cup ModifyOps("secondary"),
          add \in LabelArgs, remove \in LabelArgs, failed \in BOOLEAN :
          Modify(op, add, remove, failed)


FilterStep ==
    /\ Fresh
    /\ \E failed \in BOOLEAN :
          \/ /\ server = "primary"
             /\ \E f \in FilterDicts : CreateFilter(f.criteria, f.action, failed)
          \/ /\ server = "secondary"
             /\ \E a \in FilterArgs : CreateFilter(CriteriaOf(a), ActionOf(a), failed)


ListLabelsStep ==
    /\ Fresh
    /\ \E resp \in ListResponses : ListLabels(resp)

GwNext ==
    \/ SendStep
    \/ ReadStep
    \/ SearchStep
    \/ ReplyStep
    \/ DownloadStep
    \/ ModifyStep
    \/ FilterStep
    \/ ListLabelsStep

GatewaySpec == GwInit /\ [][GwNext]_vars


\* ============================================================== dispatcher
\* FastMCP runs every tool procedure as a coroutine on one event-loop
\* thread.  The loop takes up an invocation only while it is free; what a
\* procedure does between two awaits runs on the loop thread and holds it.
nonDispVars == <<server, now, tokenFile, env, envChanges, service, pc, creds,
                 manual, log, prev, calls, dirtyPrev, dirtyCur, tool, toolCalls, gw>>

DispatchedTools == {"search_emails", "send_email"}

SetInv(i, name, st) == [disp.inv EXCEPT ![i] = [tool |-> name, st |-> st]]

\* the loop thread is free to take up invocation i
CanStart(i) == disp.loop = 0 /\ disp.inv[i].st = "new"

\* where the provider call of a tool procedure runs.  primary: "await
\* loop.run_in_executor(None, _gmail_service.<method>, ...)", on a thread
\* of the default executor; secondary: ".execute()" in the body of the
\* "async def", on the loop thread itself
RemoteOnLoop(srv) == srv = "secondary"

\* a request for a tool arrives at the server
Arrive(i, name) ==
    /\ disp.inv[i].st = "none"
    /\ disp' = [disp EXCEPT !.inv = SetInv(i, name, "new")]
    /\ UNCHANGED nonDispVars

\* the loop starts the procedure, which runs up to its provider call
Start(i) ==
    /\ CanStart(i)
    /\ disp' = [loop |-> IF RemoteOnLoop(server) THEN i ELSE 0,
                inv  |-> SetInv(i, disp.inv[i].tool, "remote")]
    /\ UNCHANGED nonDispVars

\* the provider answers.  On the loop thread the procedure goes on to its
\* return; on an executor thread the future completes and the coroutine
\* waits for the loop
RemoteReturn(i) ==
    /\ disp.inv[i].st = "remote"
    /\ disp' = IF disp.loop = i
               THEN [loop |-> 0, inv |-> SetInv(i, disp.inv[i].tool, "done")]
               ELSE [disp EXCEPT !.inv = SetInv(i, disp.inv[i].tool, "returned")]
    /\ UNCHANGED nonDispVars

\* the loop resumes the coroutine after its await and the tool returns
Resume(i) ==
    /\ disp.loop = 0
    /\ disp.inv[i].st = "returned"
    /\ disp' = [disp EXCEPT !.inv = SetInv(i, disp.inv[i].tool, "done")]
    /\ UNCHANGED nonDispVars

DispatchNext ==
    \/ \E i \in Invocations, name \in DispatchedTools : Arrive(i, name)
    \/ \E i \in Invocations : Start(i)
    \/ \E i \in Invocations : RemoteReturn(i)
    \/ \E i \in Invocations : Resume(i)

\* the dispatcher on its own: no authentication call and no gateway
\* operation goes on
DispatchSpec == GwInit /\ [][DispatchNext]_vars


\* =================================================================== setup
\* setup_auth.py, setup_authentication(): the interactive set-up script.
\* It works on the same token file and client-secret file as the server.
nonSetupVars == <<server, now, env, envChanges, service, pc, creds, manual, log,
                  prev, calls, dirtyPrev, dirtyCur, tool, toolCalls, disp>>

\* "except Exception: if os.path.exists(TOKEN_PATH): os.remove(TOKEN_PATH)"
Removed(file) == Absent

SetupFailed(file, at) == [file |-> file, ok |-> FALSE, at |-> at]

\* the manual flow of the script, from "Start manual OAuth flow" on: the
\* code is exchanged, the credential written, the connection tested; an
\* exception anywhere removes the token file that is there
SetupFlow(file, t, e, profileOk) ==
    IF ~e.manualOk THEN SetupFailed(Removed(file), "exchange")
    ELSE IF ~e.writeOk THEN SetupFailed(Removed(file), "write")
    ELSE IF ~profileOk THEN SetupFailed(Removed(FileOf(Granted(t))), "test")
    ELSE [file |-> FileOf(Granted(t)), ok |-> TRUE, at |-> "flow"]

\* setup_authentication(): an existing token that loads as valid and passes
\* the connection test ends the script; anything else goes on to the
\* client-secret check and the manual flow
SetupResult(file, t, e, profileOk) ==
    IF file.kind = "cred" /\ Valid(file.cred, t) /\ profileOk
    THEN [file |-> file, ok |-> TRUE, at |-> "existing"]
    ELSE IF ~e.secret THEN SetupFailed(file, "secret")
    ELSE SetupFlow(file, t, e, profileOk)

SetupAuth(profileOk) ==
    /\ LET r == SetupResult(tokenFile, now, env, profileOk)
       IN  /\ tokenFile' = r.file
           /\ gw' = [op |-> "setup_auth", before |-> tokenFile,
                     profileOk |-> profileOk, ok |-> r.ok, at |-> r.at]
    /\ UNCHANGED nonSetupVars

SetupStep ==
    /\ Fresh
    /\ \E profileOk \in BOOLEAN : SetupAuth(profileOk)

SetupNext ==
    \/ SetupStep

SetupSpec == Init /\ [][SetupNext]_vars

\* ================================================================= claims
Finished(c) == pc[c] = "idle" /\ log[c].result \in {"ok", "error"}

\* loaded classifications with no usable stored credential (neither valid
\* nor expired with a refresh token)
NoUsableStored == {"absent", "corrupt", "expTerminal"}

\* C1: a call that returns normally has installed a service whose credential
\* is valid at that moment; a call that fails has installed no service.
C1_InstalledServiceUsable ==
    \A c \in Callers :
        /\ log[c].result = "ok" => log[c].installed /\ log[c].usable
        /\ log[c].result = "error" => ~log[c].installed
        /\ log[c].installed => log[c].result = "ok"

C1_Witness ==
    \E c \in Callers :
        /\ log[c].result = "ok" /\ log[c].installed /\ log[c].usable
        /\ log[c].loaded = "expRefreshable" /\ log[c].refresh = "ok"
        /\ service.installed

\* C2: every failure of a tool invocation comes back as a failure result
\* {success: false, error}; no exception leaves a tool procedure.
C2_FailuresAreResults ==
    /\ tool.outcome # "raised"
    /\ (tool.op # "none" /\ (tool.fault # "none" \/ ~tool.hadService))
          => tool.outcome = "failure"

\* C3: a tool invoked without a usable session (no service installed, or the
\* credential of the installed service expired) fails and issues no request.
C3_NoSessionNoRequest ==
    (tool.op # "none" /\ tool.op # "trigger_n8n_workflow"
        /\ ~(tool.hadService /\ tool.credValid))
        => tool.outcome # "success" /\ tool.issued = 0

\* C3 as amended: a tool invoked while no service is installed returns a
\* failure result and issues no request.
C3_NoServiceNoRequest ==
    (tool.op # "none" /\ ~tool.hadService)
        => tool.outcome = "failure" /\ tool.issued = 0

C3_Witness ==
    /\ tool.op = "get_profile" /\ ~tool.hadService /\ tool.fault = "none"
    /\ tool.outcome = "failure" /\ tool.issued = 0

\* C4: after a successful refresh the call ends valid without an interactive
\* grant; after a refresh that raised, the call goes on to the interactive
\* grant (it does not end at the refresh error).
C4_RefreshThenGrant ==
    \A c \in Callers :
        /\ log[c].refresh = "ok" =>
              /\ log[c].grant = "none"
              /\ Finished(c) /\ log[c].wrote # "failed" => log[c].result = "ok"
        /\ (log[c].refresh = "failed" /\ Finished(c)) =>
              (log[c].grant # "none" \/ log[c].secretMissing)

\* C5: a call that reached a valid credential by a refresh or by a grant has
\* attempted the write of the token file before it builds the service or
\* returns.
C5_WriteBeforeReturn ==
    \A c \in Callers :
        ((log[c].refresh = "ok" \/ log[c].grant = "ok")
            /\ (pc[c] = "build" \/ Finished(c)))
        => log[c].wrote # "none"

C5_Witness ==
    \E c \in Callers :
        /\ log[c].refresh = "ok" /\ log[c].result = "ok"
        /\ log[c].wrote = "ok" /\ log[c].installed

\* C6: a failed write of the token file never makes the call fail; the call
\* still ends with a usable service.
C6_WriteFailureTolerated ==
    \A c \in Callers :
        (log[c].wrote = "failed" /\ Finished(c))
        => log[c].result = "ok" /\ log[c].installed /\ log[c].usable

\* C7: at most one refresh or grant is in flight at any time.
InFlight == {c \in Callers : pc[c] \in {"refreshing", "auto", "manual"}}

C7_OneInFlight == Cardinality(InFlight) <= 1

\* C8: a call that repeats the previous one, with nothing changed in between,
\* ends as the previous one did.
C8_Idempotent ==
    \A c \in Callers :
        (/\ prev[c] \in {"ok", "error"}
         /\ Finished(c)
         /\ ~dirtyPrev[c] /\ ~dirtyCur[c])
        => log[c].result = prev[c]

C8_Witness ==
    \E c \in Callers :
        /\ prev[c] = "ok" /\ Finished(c) /\ log[c].result = "ok"
        /\ ~dirtyPrev[c] /\ ~dirtyCur[c]
        /\ log[c].loaded = "valid"
        /\ tokenFile.kind = "cred" /\ tokenFile.cred.origin = "granted"

\* C9 (first half, shared): a call that found no token file attempts no
\* refresh and, the client secret being there, enters the interactive grant.
C9_AbsentGoesToGrant ==
    \A c \in Callers :
        log[c].loaded = "absent" =>
            /\ log[c].refresh = "none"
            /\ pc[c] \in {"load", "flow"} \/ log[c].secretMissing \/ log[c].grant # "none"

C10_NoSecretFails ==
    \A c \in Callers :
        (/\ Finished(c)
         /\ log[c].loaded \in NoUsableStored
         /\ ~env.secret /\ ~dirtyCur[c])
        => /\ log[c].result = "error"
           /\ ~log[c].installed
           /\ log[c].wrote = "none"

C10_Witness ==
    \E c \in Callers :
        /\ Finished(c) /\ log[c].loaded = "expTerminal"
        /\ ~env.secret /\ ~dirtyCur[c] /\ ~dirtyPrev[c]
        /\ prev[c] = "error" /\ log[c].result = "error" /\ log[c].secretMissing
        /\ ~service.installed /\ tokenFile.cred.origin = "stored"

\* ------------------------------------------------------ message composition
\* a send_email or create_draft whose message was composed
Composed ==
    /\ gw.op \in {"send_email", "create_draft"}
    /\ ~(server = "primary" /\ gw.failAt = 1)
    /\ ~gw.composed.raised

\* the part of a composed message that holds the body
BodyPartOf(msg) == IF msg.ctype = "multipart/mixed" THEN msg.parts[1] ELSE msg

\* b is the alternative container of plain text p and HTML text h, in this order
IsAlternativeOf(b, p, h) ==
    /\ b.ctype = "multipart/alternative"
    /\ Len(b.parts) = 2
    /\ b.parts[1].ctype = "text/plain" /\ b.parts[1].text = p
    /\ b.parts[2].ctype = "text/html" /\ b.parts[2].text = h

\* beyond the body part, a mixed message has attachment parts only
NoSecondBody(msg) ==
    msg.ctype = "multipart/mixed" =>
        \A i \in 2..Len(msg.parts) : msg.parts[i].disp = "attachment"

ReadableGiven == SelectSeq(gw.m.atts, LAMBDA a : a.status = "ok")

\* C12: a message composed with attachments is a multipart/mixed container:
\* the body first, then one attachment part per attachment (that could be
\* read: C13), in the order given, its filename the last component of the path.
C12_MixedWithAttachments ==
    (Composed /\ gw.m.atts # <<>>)
    => LET msg == gw.composed.msg
       IN  /\ msg.ctype = "multipart/mixed"
           /\ Len(msg.parts) = 1 + Len(ReadableGiven)
           /\ msg.parts[1].disp = ""
           /\ msg.parts[1].ctype \in {"text/plain", "text/html", "multipart/alternative"}
           /\ \A i \in 1..Len(ReadableGiven) :
                 LET path == ReadableGiven[i].path
                 IN  /\ msg.parts[i + 1].disp = "attachment"
                     /\ msg.parts[i + 1].filename = <<path[Len(path)]>>
           /\ (Len(ReadableGiven) = Len(gw.m.atts))
                 => Len(msg.parts) = 1 + Len(gw.m.atts)

C12_Witness ==
    /\ Composed /\ Len(gw.m.atts) = 2 /\ Len(ReadableGiven) = 2
    /\ gw.m.atts[1].path = <<"d", "f2">> /\ gw.m.atts[2].path = <<"f1">>
    /\ Len(gw.composed.msg.parts) = 3
    /\ gw.composed.msg.parts[2].filename = <<"f2">>
    /\ gw.composed.msg.parts[3].filename = <<"f1">>

\* C13: a send_email with an attachment that cannot be read skips it with a
\* warning, attaches the readable ones and still makes the send request.
C13_UnreadableSkipped ==
    (/\ gw.op = "send_email"
     /\ ~(server = "primary" /\ gw.failAt = 1)
     /\ Len(ReadableGiven) < Len(gw.m.atts))
    => /\ ~gw.composed.raised
       /\ gw.composed.warnings = Len(gw.m.atts) - Len(ReadableGiven)
       /\ Len(gw.composed.msg.parts) = 1 + Len(ReadableGiven)
       /\ \E i \in 1..Len(gw.requests) : gw.requests[i] = "messages.send"

HeaderNames == {"From", "To", "Cc", "Bcc", "Subject"}

\* the field behind a header is present: supplied and not empty
FieldPresent(h) ==
    CASE h = "From" -> server = "primary"
      [] h = "To" -> gw.m.to # <<>>
      [] h = "Cc" -> gw.m.cc # <<>>
      [] h = "Bcc" -> gw.m.bcc # <<>>
      [] OTHER -> gw.m.subject # ""

Carried(h) == h \in DOMAIN gw.composed.headers

\* C14: the composed message carries a header exactly when its field is
\* present.
C14_HeadersIffPresent ==
    Composed => \A h \in HeaderNames : Carried(h) <=> FieldPresent(h)

\* C14 as amended: Cc and Bcc are carried exactly when present; To and
\* Subject are always carried, with an empty value when the field is empty;
\* From is carried by the primary server always and by the secondary never.
C14_CcBccIffPresent ==
    Composed =>
        /\ \A h \in {"Cc", "Bcc"} : Carried(h) <=> FieldPresent(h)
        /\ Carried("To") /\ gw.composed.headers["To"] = gw.m.to
        /\ Carried("Subject") /\ gw.composed.headers["Subject"] = gw.m.subject
        /\ Carried("From") <=> server = "primary"

C14_Witness ==
    /\ Composed /\ gw.m.subject = "" /\ gw.m.cc = <<>> /\ gw.m.bcc # <<>>
    /\ Carried("Subject") /\ gw.composed.headers["Subject"] = ""
    /\ ~Carried("Cc") /\ Carried("Bcc")

\* ------------------------------------------------------------ decoded body
Reading == gw.op \in {"read_email", "get_thread"}

LeavesOf(payload) == {Walk(payload)[i] : i \in 1..Len(Walk(payload))}

TextsOf(payload, mime) ==
    {p.data.bytes : p \in {q \in LeavesOf(payload) : q.mime = mime /\ q.body = "data"}}

\* the body the payload stands for: a plain-text part's text, else an HTML
\* part's, else the snippet
BodiesOf(payload, snippet) ==
    IF TextsOf(payload, "text/plain") # {} THEN TextsOf(payload, "text/plain")
    ELSE IF TextsOf(payload, "text/html") # {} THEN TextsOf(payload, "text/html")
    ELSE {snippet}

\* C15: for every payload part tree (all parts well formed, the provider
\* answering), the decoded body is the text of a plain-text part when one
\* exists at any nesting level, otherwise the text of an HTML part when one
\* exists at any level, otherwise the snippet.
C15_PlainThenHtmlThenSnippet ==
    (Reading /\ ~gw.failed /\ LeavesOf(gw.payload) \subseteq WellFormedLeaves)
    => /\ gw.outcome = "success"
       /\ gw.body \in BodiesOf(gw.payload, gw.snippet)

\* C16: a read whose payload has a part with missing or malformed body data
\* (no body, no data, no mimeType, undecodable bytes) succeeds, and nothing
\* undecodable is in the body it returns.
C16_MalformedTolerated ==
    (Reading /\ ~gw.failed /\ LeavesOf(gw.payload) \cap MalformedLeaves # {})
    => /\ gw.outcome = "success"
       /\ \A i \in 1..Len(gw.body) : gw.body[i] # "?"

\* ------------------------------------------------------------------ search
\* C17: search_emails(query, max_results=N) asks the provider for no more
\* than N, returns at most N items whatever list the provider answers with,
\* and for N = 0 returns a successful empty list.
C17_AtMostN ==
    gw.op = "search_emails"
    => /\ gw.asked <= gw.n
       /\ gw.outcome = "success" => Len(gw.items) <= gw.n
       /\ gw.n = 0 => (gw.outcome = "success" /\ gw.items = <<>>)

\* ------------------------------------------------------------------- reply
Replied == gw.op = "reply_to_email" /\ gw.failAt # 1

StartsWithRe(s) == Len(s) >= Len(RePrefix) /\ SubSeq(s, 1, Len(RePrefix)) = RePrefix

\* C18: for every original subject S the reply's subject is S unchanged
\* when S starts with "Re: ", and "Re: " followed by S unchanged otherwise.
C18_RePrefixOnce ==
    Replied
    => gw.send.subject = IF StartsWithRe(gw.orig.subject)
                         THEN gw.orig.subject
                         ELSE RePrefix \o gw.orig.subject

\* C19: the reply's send request carries the original's thread id, its
\* In-Reply-To and References are the original's Message-ID, and the thread
\* id reported on success is the original's.
C19_SameThread ==
    (Replied /\ gw.orig.idName # "absent")
    => /\ gw.send.threadId = gw.orig.threadId
       /\ gw.send.inReplyTo = MessageId
       /\ gw.send.references = MessageId
       /\ gw.outcome = "success" => gw.threadId = gw.orig.threadId

\* ------------------------------------------------------------- no retries
SendCount ==
    Cardinality({i \in 1..Len(gw.requests) :
                    gw.requests[i] \in {"messages.send", "drafts.create"}})

\* C20: an invocation of send_email, create_draft or reply_to_email issues
\* at most one send/create request, also when that request fails.
C20_AtMostOneSend ==
    gw.op \in {"send_email", "create_draft", "reply_to_email"} => SendCount <= 1

\* a send, a draft creation and a reply whose one request failed
C20_Witness ==
    /\ gw.op \in {"send_email", "create_draft", "reply_to_email"}
    /\ gw.outcome \in {"raised", "failure"}
    /\ SendCount = 1

\* ---------------------------------------------------------------- download
\* C21: a download whose destination cannot be opened, or whose write fails
\* part-way, returns a failure result and leaves no file of the attachment,
\* complete or partial, at the destination.
C21_UnwritableLeavesNothing ==
    (gw.op = "download_attachment" /\ gw.fault \in {"open", "write"})
    => /\ gw.outcome = "failure"
       /\ gw.dest \notin {"partial", "complete"}

\* C30: when the fetch of the attachment or the decoding of its data fails,
\* the file at the destination is not created, truncated or modified.
C30_FetchFailureLeavesDest ==
    (gw.op = "download_attachment" /\ gw.fault \in {"fetch", "decode"})
    => /\ gw.outcome = "failure"
       /\ gw.dest = gw.before

C30_Witness ==
    /\ gw.op = "download_attachment"
    /\ gw.fault = "decode"
    /\ gw.before = "old"
    /\ gw.dest = "old"
    /\ gw.outcome = "failure"

\* ------------------------------------------------------- labels and filters
\* C23: a modify-labels or batch-modify call whose add set and remove set
\* are both empty or omitted is rejected and sends no modify request.
C23_EmptyModifyRejected ==
    (/\ gw.op \in {"modify_email_labels", "modify_message_labels", "batch_modify_messages"}
     /\ gw.add.ids = <<>> /\ gw.remove.ids = <<>>)
    => /\ gw.outcome # "success"
       /\ gw.requests = <<>>

\* C24: a create-filter call with no criterion, or with no action, is
\* rejected and sends no create request.
C24_EmptyFilterRejected ==
    (gw.op = "create_filter" /\ (gw.criteria = {} \/ gw.action = {}))
    => /\ gw.outcome # "success"
       /\ gw.requests = <<>>

\* ------------------------------------------------------------ result shape
\* C26: a tool result is either success=true with the operation's fields and
\* no error, or success=false with an error message; a successful result of
\* search_emails and list_labels has count equal to the length of its list.
C26_ResultShape ==
    gw.op \in {"search_emails", "list_labels"}
    => /\ gw.returned.kind = "dict"
       /\ \/ /\ gw.returned.success /\ ~gw.returned.error
             /\ gw.returned.hasCount /\ gw.returned.count = Len(gw.items)
          \/ ~gw.returned.success /\ gw.returned.error

\* -------------------------------------------------------------- dispatcher
\* C22: while one tool invocation is waiting on the provider, the dispatcher
\* can start another invocation that has arrived: the remote call of a tool
\* does not hold the dispatcher thread.
C22_IntakeNotBlocked ==
    \A i, j \in Invocations :
        (disp.inv[i].st = "remote" /\ disp.inv[j].st = "new") => CanStart(j)

\* ------------------------------------------------------------------- setup
\* C25: no operation deletes the token file unless the caller asked for a
\* revocation or deletion; a failed authentication attempt leaves a token
\* file that existed before the attempt in place.
C25_TokenFileNotDeleted ==
    (gw.op = "setup_auth" /\ gw.before.kind # "absent") => tokenFile.kind # "absent"

\* ------------------------------------------------- authentication, further
\* C27: a call that loads the stored credential as valid performs no
\* refresh, starts no interactive grant and does not write the token file:
\* it goes from the load to the build of the service, and its steps leave
\* the token file as it is.
C27_ValidLoadTouchesNothing ==
    /\ [](\A c \in Callers :
            log[c].loaded = "valid"
            => /\ log[c].refresh = "none"
               /\ log[c].grant \notin {"entered", "ok", "failed"}
               /\ log[c].manualTried = 0
               /\ log[c].wrote = "none"
               /\ pc[c] \in {"build", "idle"})
    /\ [][\A c \in Callers :
            (log'[c].loaded = "valid" /\ pc'[c] # pc[c]) => tokenFile' = tokenFile]_vars

C27_Witness ==
    \E c \in Callers :
        /\ Finished(c) /\ log[c].loaded = "valid" /\ log[c].result = "ok"
        /\ log[c].refresh = "none" /\ log[c].grant = "none" /\ log[c].wrote = "none"
        /\ tokenFile.kind = "cred" /\ tokenFile.cred.origin = "stored"

\* C28: a token file that cannot be parsed is treated like an absent one:
\* the call goes on to the interactive grant (no refresh), and fails only
\* where a call without a token file fails, not on the load error.
C28_CorruptLikeAbsent ==
    \A c \in Callers :
        log[c].loaded = "corrupt"
        => /\ log[c].refresh = "none"
           /\ (Finished(c) /\ log[c].result = "error")
                 => (log[c].secretMissing \/ log[c].grant = "failed")

\* the call of c fell back from the automatic to the manual flow
FellBack(c) == server = "secondary" /\ log[c].grant # "none" /\ manual[c] /\ ~log[c].arg

\* within one call the automatic flow is entered at most once and the
\* manual flow at most once, and a failed manual flow ends the call in error
FallbackEnds(c) ==
    /\ log[c].autoTried <= 1
    /\ log[c].manualTried <= 1
    /\ (log[c].manualTried = 1 /\ log[c].grant = "failed")
          => (Finished(c) /\ log[c].result = "error")

\* C29: within one call of authenticate the automatic flow is attempted at
\* most once, and after it fails the manual flow runs exactly once with no
\* further fallback: its failure is an error, not another retry.
C29_ManualExactlyOnce ==
    \A c \in Callers :
        /\ FallbackEnds(c)
        /\ (FellBack(c) /\ Finished(c)) => log[c].manualTried = 1

\* C29 as amended: ... after it fails the manual flow runs at most once,
\* and exactly once unless the re-entered call finds the token file usable
\* (valid or refreshable) or the client-secret file gone.
C29_ManualAtMostOnce ==
    \A c \in Callers :
        /\ FallbackEnds(c)
        /\ (FellBack(c) /\ Finished(c))
              => \/ log[c].manualTried = 1
                 \/ log[c].loaded \in {"valid", "expRefreshable"}
                 \/ log[c].secretMissing

C29_Witness ==
    \E c \in Callers :
        /\ FellBack(c) /\ Finished(c)
        /\ log[c].autoTried = 1 /\ log[c].manualTried = 1
        /\ log[c].grant = "failed" /\ log[c].result = "error"

====
